---- MODULE Spec2Model ----
(***************************************************************************)
(* Model of the tailor-shop order API of src/server.js: the Orders table,  *)
(* the uploads/ directory, the server clock and the HTTP requests in       *)
(* flight, one action per handler step (each await and each fs callback    *)
(* is a step of its own), and the start of the process: the connection     *)
(* check that precedes app.listen.                                         *)
(*                                                                         *)
(* Strings are sequences of one-character strings ("" is <<>>), ISO dates  *)
(* 'YYYY-MM-DD' are triples <<y, m, d>>, and a nullable column holds <<>>  *)
(* for NULL and <<v>> for the value v.                                     *)
(***************************************************************************)
EXTENDS Integers, Sequences, FiniteSets, TLC

VARIABLES Orders, uploads, now, req, startup, conn

vars == <<Orders, uploads, now, req, startup, conn>>

\* ------------------------------------------------------------------ bounds
\* Number of HTTP requests the model lets arrive.
NumReq == 2
\* Last value of the millisecond clock (it starts at 0).
MaxTime == 1

Requests == 1..NumReq

\* ------------------------------------------------------------ value domains
NULL == <<>>
Some(v) == <<v>>

\* The characters that occur, in collation order.
Alphabet == <<"0", "1", "2", "3", "4", "5", "6", "7", "8", "9", "e", "m", "p", "t", "x">>
CharCode(c) == CHOOSE i \in 1..Len(Alphabet) : Alphabet[i] = c

RECURSIVE StrLess(_, _)
\* a < b in the table's string order (lexicographic; a proper prefix is smaller).
StrLess(a, b) ==
    IF b = <<>> THEN FALSE
    ELSE IF a = <<>> THEN TRUE
    ELSE IF CharCode(Head(a)) # CharCode(Head(b)) THEN CharCode(Head(a)) < CharCode(Head(b))
    ELSE StrLess(Tail(a), Tail(b))

\* d1 <= d2 on dates <<y, m, d>>.
DateLE(d1, d2) ==
    \/ d1[1] < d2[1]
    \/ d1[1] = d2[1] /\ d1[2] < d2[2]
    \/ d1[1] = d2[1] /\ d1[2] = d2[2] /\ d1[3] <= d2[3]

\* The number of milliseconds in a day.
MsPerDay == 86400000
\* new Date().toISOString().split('T')[0]: the calendar day of the clock value t,
\* as the number of days since the clock's day 0.
ISODate(t) == t \div MsPerDay

\* Bill numbers and dates the clients send.
BillNumbers == {<<"1">>, <<"9">>}
DeliveryDates == {<<2050, 6, 15>>}
NotesTexts == {<<"x">>}
Extensions == {<<"j">>}

\* A request's fields: a function whose domain holds the fields that were sent.
NoFields == [k \in {} |-> <<>>]
Has(fields, k) == k \in DOMAIN fields
\* JavaScript's !fields[k]: the field is undefined or the empty string.
Falsy(fields, k) == ~Has(fields, k) \/ fields[k] = <<>>

\* fields without the field k (the client did not send it).
Without(fields, k) == [j \in DOMAIN fields \ {k} |-> fields[j]]

\* The req.body values of POST /api/orders: every complete body, with the notes sent,
\* sent empty or left out, and the bodies whose bill_number or delivery_date is
\* empty or left out.
Bodies ==
    LET full == [bill_number : BillNumbers, delivery_date : DeliveryDates,
                 notes : NotesTexts \cup {<<>>}]
        plain == {Without(f, "notes") : f \in full}
    IN  full \cup plain
        \cup {[f EXCEPT !.bill_number = <<>>] : f \in plain}
        \cup {[f EXCEPT !.delivery_date = <<>>] : f \in plain}
        \cup {Without(f, "bill_number") : f \in plain}
        \cup {Without(f, "delivery_date") : f \in plain}
        \cup {NoFields}

\* -------------------------------------------------------------- Orders table
Row(bill, billDate, delivery, notes, status, completion, image) ==
    [bill_number |-> bill, bill_date |-> billDate, delivery_date |-> delivery,
     notes |-> notes, status |-> status, completion_date |-> completion,
     customer_name |-> "N/A", total_amount |-> 0, image_path |-> image]

\* The artifact name multer generates.
FileName(key, ts, ext) == [key |-> key, ts |-> ts, ext |-> ext]
TempKey == <<"t", "e", "m", "p">>

\* Rows that were in the table before the server started (bill_date is a day before
\* the clock's day 0), one of them with an artifact stored by an earlier run.
SeedDay == 0 - 1
SeedImage == FileName(<<"6">>, 0 - 5, <<"j">>)
SeedRows ==
    { Row(<<"7">>, SeedDay, <<1999, 12, 31>>, Some(<<>>), "Pending", NULL, NULL),
      Row(<<"8">>, SeedDay, <<2000, 1, 1>>, Some(<<"x">>), "In Progress", NULL, NULL),
      Row(<<"9">>, SeedDay, <<2100, 1, 1>>, Some(<<>>), "Pending", NULL, NULL),
      Row(<<"1", "0">>, SeedDay, <<2100, 1, 2>>, Some(<<>>), "Pending", NULL, NULL),
      Row(<<"6">>, SeedDay, <<2050, 6, 15>>, Some(<<>>), "Complete", Some(SeedDay), Some(SeedImage)) }

\* The uploads/ directory: a set of files, each a name and the upload that wrote its
\* content (0: an earlier run of the server). A name occurs at most once.
SeedFiles == {[name |-> SeedImage, owner |-> 0]}

Exists(files, name) == \E f \in files : f.name = name
\* multer's disk storage opens the destination for writing: an existing file of the
\* same name is replaced.
WriteFile(files, name, owner) ==
    {f \in files : f.name # name} \cup {[name |-> name, owner |-> owner]}
\* fs.unlink: the file of that name is removed.
RemoveFile(files, name) == {f \in files : f.name # name}

\* ---------------------------------------------------------------- requests
NoResult == [code |-> "none", affectedRows |-> 0]
\* A request that has not arrived. res is the status of the last response sent for
\* it and sent the number of responses sent; unlinkErr tells whether the callback of
\* fs.unlink got an error.
Idle ==
    [kind |-> "none", pc |-> "idle", body |-> NoFields, params |-> NoFields,
     query |-> NoFields, file |-> {}, result |-> NoResult, res |-> 0, sent |-> 0,
     rows |-> <<>>, unlinkErr |-> FALSE]

\* The process starts on a table that is empty or that holds the rows of earlier runs;
\* pool.getConnection() has been called, nothing listens and no request has arrived.
Init ==
    /\ \E seeded \in BOOLEAN :
          /\ Orders = IF seeded THEN SeedRows ELSE {}
          /\ uploads = IF seeded THEN SeedFiles ELSE {}
    /\ now = 0
    /\ req = [r \in Requests |-> Idle]
    /\ startup = "connecting"
    /\ conn = "none"

\* ------------------------------------------------------------------ startup
\* pool.getConnection() resolves: the pool hands out a connection.
ConnectOk ==
    /\ startup = "connecting"
    /\ startup' = "connected"
    /\ conn' = "held"
    /\ UNCHANGED <<Orders, uploads, now, req>>

\* ConnectFail with app.listen called in the catch callback as well.
ConnectFailListens ==
    /\ startup = "connecting"
    /\ startup' = "listening"
    /\ UNCHANGED <<Orders, uploads, now, req, conn>>

\* pool.getConnection() rejects: the catch callback logs the error and nothing else
\* is scheduled.
ConnectFail ==
    /\ startup = "connecting"
    /\ startup' = "failed"
    /\ UNCHANGED <<Orders, uploads, now, req, conn>>

\* The then callback: connection.release(), then app.listen(PORT).
Listen ==
    /\ startup = "connected"
    /\ conn' = "released"
    /\ startup' = "listening"
    /\ UNCHANGED <<Orders, uploads, now, req>>

\* A request reaches a route only while the listener is up. Requests are numbered in
\* their order of arrival.
Arrives(r) ==
    /\ startup = "listening"
    /\ req[r].pc = "idle"
    /\ \A q \in Requests : q < r => req[q].pc # "idle"

\* Date.now() advances.
Tick ==
    /\ now < MaxTime
    /\ now' = now + 1
    /\ UNCHANGED <<Orders, uploads, req, startup, conn>>

\* ------------------------------------------------- POST /api/orders (create)
\* multer's filename callback: req.body holds the form fields that came before the
\* file part, and bill_number names the file only when it is among them.
filename(bodySoFar, ext, t) ==
    FileName(IF Falsy(bodySoFar, "bill_number") THEN TempKey ELSE bodySoFar.bill_number, t, ext)

\* What req.body can hold of bill_number when the file part arrives.
BodiesSoFar == {NoFields} \cup {[bill_number |-> b] : b \in BillNumbers \cup {<<>>}}

\* body agrees with the fields received earlier.
Extends(body, soFar) == \A k \in DOMAIN soFar : Has(body, k) /\ body[k] = soFar[k]

\* The fields among keep (the others are not read again).
Keep(fields, keep) == [k \in DOMAIN fields \cap keep |-> fields[k]]

\* upload.single('style_image') on a request with a file part: the request arrives
\* and the file is written to uploads/ before the handler runs. The fields after the
\* file part are parsed later; the handler step below draws them.
Upload(r) ==
    /\ Arrives(r)
    /\ \E soFar \in BodiesSoFar, ext \in Extensions :
          LET name == filename(soFar, ext, now) IN
          /\ uploads' = WriteFile(uploads, name, r)
          /\ req' = [req EXCEPT ![r] = [Idle EXCEPT !.kind = "create", !.pc = "handler",
                                            !.body = soFar, !.file = {name}]]
    /\ UNCHANGED <<Orders, now, startup, conn>>

\* Validate with the cleanup of the uploaded file left out.
ValidateNoCleanup(r, body, file) ==
    IF Falsy(body, "bill_number") \/ Falsy(body, "delivery_date")
    THEN [req EXCEPT ![r].kind = "create", ![r].res = 400, ![r].sent = @ + 1, ![r].body = body,
                     ![r].pc = "done"]
    ELSE [req EXCEPT ![r].kind = "create", ![r].body = body, ![r].pc = "insert"]

\* The validation of the handler: the response, and fs.unlink is started for an
\* uploaded file; or the INSERT is sent.
Validate(r, body, file) ==
    IF Falsy(body, "bill_number") \/ Falsy(body, "delivery_date")
    THEN [req EXCEPT ![r].kind = "create", ![r].res = 400, ![r].sent = @ + 1, ![r].body = body,
                     ![r].pc = IF file # {} THEN "unlink" ELSE "done"]
    ELSE [req EXCEPT ![r].kind = "create", ![r].body = body, ![r].pc = "insert"]

\* The handler up to the await, for a request whose file was stored and for a request
\* that arrives without a file part.
CreateHandler(r) ==
    /\ \/ req[r].pc = "handler"
       \/ Arrives(r)
    /\ \E body \in Bodies :
          /\ Extends(body, req[r].body)
          /\ req' = Validate(r, body, req[r].file)
    /\ UNCHANGED <<Orders, uploads, now, startup, conn>>

\* NewRow with notes bound as it was sent: NULL when the field is missing.
NewRowNullNotes(body, file, t) ==
    Row(body.bill_number, ISODate(t), body.delivery_date,
        IF Has(body, "notes") THEN Some(body.notes) ELSE NULL,
        "Pending", NULL,
        IF file = {} THEN NULL ELSE Some(CHOOSE n \in file : TRUE))

\* NewRow with the status 'In Progress' in place of 'Pending'.
NewRowInProgress(body, file, t) ==
    Row(body.bill_number, ISODate(t), body.delivery_date,
        Some(IF Falsy(body, "notes") THEN <<>> ELSE body.notes),
        "In Progress", NULL,
        IF file = {} THEN NULL ELSE Some(CHOOSE n \in file : TRUE))

\* The row the INSERT statement carries. bill_date is read from the clock in the
\* handler; the clock stays within one day, so t may be the time of the INSERT.
NewRow(body, file, t) ==
    Row(body.bill_number, ISODate(t), body.delivery_date,
        Some(IF Falsy(body, "notes") THEN <<>> ELSE body.notes),
        "Pending", NULL,
        IF file = {} THEN NULL ELSE Some(CHOOSE n \in file : TRUE))

\* The table's unique key on bill_number.
DuplicateKey(orders, bill) == \E o \in orders : o.bill_number = bill

\* What pool.execute can answer to the INSERT: the row is added (one affected row);
\* the key exists and the store reports it, as ER_DUP_ENTRY or as no affected row;
\* or the statement fails for another reason.
InsertOutcomes(orders, row) ==
    (IF DuplicateKey(orders, row.bill_number)
     THEN {[orders |-> orders, result |-> [code |-> "ER_DUP_ENTRY", affectedRows |-> 0]],
           [orders |-> orders, result |-> [code |-> "OK", affectedRows |-> 0]]}
     ELSE {[orders |-> orders \cup {row}, result |-> [code |-> "OK", affectedRows |-> 1]]})
    \cup {[orders |-> orders, result |-> [code |-> "ER_FAULT", affectedRows |-> 0]]}

\* await pool.execute(INSERT ...): the store runs the statement.
CreateInsert(r) ==
    /\ req[r].pc = "insert"
    /\ \E out \in InsertOutcomes(Orders, NewRow(req[r].body, req[r].file, now)) :
          /\ Orders' = out.orders
          /\ req' = [req EXCEPT ![r].result = out.result, ![r].pc = "resume",
                                  ![r].body = Keep(req[r].body, {"bill_number", "delivery_date"})]
    /\ UNCHANGED <<uploads, now, startup, conn>>

\* CreateStatus with a duplicate key answered as a success.
CreateStatusDupAsSuccess(result) ==
    IF result.code = "OK"
    THEN (IF result.affectedRows = 0 THEN 409 ELSE 201)
    ELSE (IF result.code = "ER_DUP_ENTRY" THEN 201 ELSE 500)

\* CreateStatus with the affectedRows test inverted.
CreateStatusInverted(result) ==
    IF result.code = "OK"
    THEN (IF result.affectedRows # 0 THEN 409 ELSE 201)
    ELSE (IF result.code = "ER_DUP_ENTRY" THEN 409 ELSE 500)

\* CreateStatus with the affectedRows test left out.
CreateStatusNoRowCheck(result) ==
    IF result.code = "OK" THEN 201
    ELSE (IF result.code = "ER_DUP_ENTRY" THEN 409 ELSE 500)

\* The response the handler sends after the INSERT.
CreateStatus(result) ==
    IF result.code = "OK"
    THEN (IF result.affectedRows = 0 THEN 409 ELSE 201)
    ELSE (IF result.code = "ER_DUP_ENTRY" THEN 409 ELSE 500)

\* Whether the handler calls fs.unlink after the INSERT: in the catch block only.
CleansUp(result, file) == result.code # "OK" /\ file # {}

\* The handler after the await: the response, and fs.unlink is started in the catch.
CreateResume(r) ==
    /\ req[r].pc = "resume"
    /\ req[r].kind = "create"
    /\ req' = [req EXCEPT ![r].res = CreateStatus(req[r].result), ![r].sent = @ + 1,
                          ![r].pc = IF CleansUp(req[r].result, req[r].file)
                                    THEN "unlink" ELSE "done"]
    /\ UNCHANGED <<Orders, uploads, now, startup, conn>>

\* Unlink with a callback that answers 500 when fs.unlink reports an error.
UnlinkEscalates(r) ==
    /\ req[r].pc = "unlink"
    /\ LET name == CHOOSE n \in req[r].file : TRUE
           err == ~Exists(uploads, name) IN
          /\ uploads' = RemoveFile(uploads, name)
          /\ req' = [req EXCEPT ![r].unlinkErr = err, ![r].pc = "done",
                                  ![r].res = IF err THEN 500 ELSE @,
                                  ![r].sent = IF err THEN @ + 1 ELSE @]
    /\ UNCHANGED <<Orders, now, startup, conn>>

\* fs.unlink(req.file.path, cb) runs: the file is removed, or the error is logged.
Unlink(r) ==
    /\ req[r].pc = "unlink"
    /\ LET name == CHOOSE n \in req[r].file : TRUE IN
          /\ uploads' = RemoveFile(uploads, name)
          /\ req' = [req EXCEPT ![r].unlinkErr = ~Exists(uploads, name), ![r].pc = "done"]
    /\ UNCHANGED <<Orders, now, startup, conn>>

\* ------------------------------- PUT /api/orders/:billNumber/complete
\* Eligible with the bill_number test of the WHERE clause left out.
EligibleAnyBill(orders, bill) == {o \in orders : o.status # "Complete"}

\* Eligible with the status test of the WHERE clause left out.
EligibleAnyStatus(orders, bill) == {o \in orders : o.bill_number = bill}

\* The rows the UPDATE's WHERE clause selects.
Eligible(orders, bill) == {o \in orders : o.bill_number = bill /\ o.status # "Complete"}

\* CompleteRows with the completion_date assignment left out.
CompleteRowsStatusOnly(orders, bill, t) ==
    {IF o \in Eligible(orders, bill) THEN [o EXCEPT !.status = "Complete"] ELSE o : o \in orders}

\* UPDATE Orders SET status = 'Complete', completion_date = NOW() WHERE ...
CompleteRows(orders, bill, t) ==
    {IF o \in Eligible(orders, bill)
     THEN [o EXCEPT !.status = "Complete", !.completion_date = Some(t)]
     ELSE o : o \in orders}

\* What pool.execute can answer to the UPDATE: it ran, or the statement failed.
UpdateOutcomes(orders, bill, t) ==
    {[orders |-> CompleteRows(orders, bill, t),
      result |-> [code |-> "OK", affectedRows |-> Cardinality(Eligible(orders, bill))]],
     [orders |-> orders, result |-> [code |-> "ER_FAULT", affectedRows |-> 0]]}

\* The bill numbers completeOrder is called with.
CompleteParams == {[billNumber |-> b] : b \in BillNumbers \cup {<<"6">>, <<"8">>}}

\* The request arrives and the store runs the UPDATE.
CompleteExec(r) ==
    /\ Arrives(r)
    /\ \E params \in CompleteParams :
       \E out \in UpdateOutcomes(Orders, params.billNumber, now) :
          /\ Orders' = out.orders
          /\ req' = [req EXCEPT ![r] = [Idle EXCEPT !.kind = "complete", !.pc = "resume",
                                            !.params = params, !.result = out.result]]
    /\ UNCHANGED <<uploads, now, startup, conn>>

\* CompleteStatus with the affectedRows test left out.
CompleteStatusNoRowCheck(result) == IF result.code = "OK" THEN 200 ELSE 500

\* The response the handler sends after the UPDATE.
CompleteStatus(result) ==
    IF result.code = "OK"
    THEN (IF result.affectedRows = 0 THEN 404 ELSE 200)
    ELSE 500

\* The handler after the await.
CompleteResume(r) ==
    /\ req[r].pc = "resume"
    /\ req[r].kind = "complete"
    /\ req' = [req EXCEPT ![r].res = CompleteStatus(req[r].result), ![r].sent = @ + 1,
                          ![r].pc = "done"]
    /\ UNCHANGED <<Orders, uploads, now, startup, conn>>

\* ------------------------------------------------ GET /api/orders/pending
\* The dates clients send as start_date and end_date.
QueryDates == {<<2000, 1, 1>>, <<2050, 6, 15>>, <<2100, 1, 2>>}

\* The req.query values: each bound sent, sent empty or left out.
Queries ==
    LET full == [start_date : QueryDates \cup {<<>>}, end_date : QueryDates \cup {<<>>}]
    IN  {Keep(f, S) : f \in full, S \in SUBSET {"start_date", "end_date"}}

\* EndDate with the last day of 2100 as the default.
EndDateEndOfYear(query) ==
    IF Falsy(query, "end_date") THEN <<2100, 12, 31>> ELSE query.end_date

\* req.query.start_date || '2000-01-01' and req.query.end_date || '2100-01-01'.
StartDate(query) == IF Falsy(query, "start_date") THEN <<2000, 1, 1>> ELSE query.start_date
EndDate(query) == IF Falsy(query, "end_date") THEN <<2100, 1, 1>> ELSE query.end_date

\* PendingWhere with both bounds exclusive.
PendingWhereExclusive(o, startDate, endDate) ==
    /\ o.status \in {"Pending", "In Progress"}
    /\ ~DateLE(o.delivery_date, startDate)
    /\ ~DateLE(endDate, o.delivery_date)

\* WHERE status IN ('Pending', 'In Progress') AND delivery_date BETWEEN ? AND ?
PendingWhere(o, startDate, endDate) ==
    /\ o.status \in {"Pending", "In Progress"}
    /\ DateLE(startDate, o.delivery_date)
    /\ DateLE(o.delivery_date, endDate)

\* SELECT bill_number, delivery_date, notes, status, image_path
PendingColumns(o) ==
    [bill_number |-> o.bill_number, delivery_date |-> o.delivery_date, notes |-> o.notes,
     status |-> o.status, image_path |-> o.image_path]

RECURSIVE OrderByDateAsc(_)
\* ORDER BY delivery_date ASC: every sequence of the rows with the dates ascending
\* (the store is free in the order of rows of the same date).
OrderByDateAsc(rows) ==
    IF rows = {} THEN {<<>>}
    ELSE UNION {{<<m>> \o rest : rest \in OrderByDateAsc(rows \ {m})} :
                m \in {x \in rows : \A y \in rows : DateLE(x.delivery_date, y.delivery_date)}}

\* The result sets the pending query can return.
SelectPending(orders, startDate, endDate) ==
    OrderByDateAsc({PendingColumns(o) : o \in {x \in orders : PendingWhere(x, startDate, endDate)}})

\* The request arrives and the store runs the SELECT, or the statement fails.
PendingExec(r) ==
    /\ Arrives(r)
    /\ \E query \in Queries, ok \in BOOLEAN :
       \E rows \in (IF ok THEN SelectPending(Orders, StartDate(query), EndDate(query))
                    ELSE {<<>>}) :
          req' = [req EXCEPT ![r] = [Idle EXCEPT !.kind = "pending", !.pc = "resume",
                                         !.query = query, !.rows = rows,
                                         !.result = [code |-> IF ok THEN "OK" ELSE "ER_FAULT",
                                                     affectedRows |-> 0]]]
    /\ UNCHANGED <<Orders, uploads, now, startup, conn>>

\* The response of both list handlers: res.json(rows), or the 500 of the catch.
ListStatus(result) == IF result.code = "OK" THEN 200 ELSE 500

\* The handler after the await: the rows are sent.
PendingResume(r) ==
    /\ req[r].pc = "resume"
    /\ req[r].kind = "pending"
    /\ req' = [req EXCEPT ![r].res = ListStatus(req[r].result), ![r].sent = @ + 1,
                          ![r].pc = "done",
                          ![r].rows = <<>>, ![r].query = NoFields]
    /\ UNCHANGED <<Orders, uploads, now, startup, conn>>

\* --------------------------------------------------------- GET /api/orders
\* SELECT bill_number, delivery_date, notes, status, completion_date, image_path
AllColumns(o) ==
    [bill_number |-> o.bill_number, delivery_date |-> o.delivery_date, notes |-> o.notes,
     status |-> o.status, completion_date |-> o.completion_date, image_path |-> o.image_path]

RECURSIVE OrderByBillAsc(_)
\* OrderByBillDesc with the direction reversed.
OrderByBillAsc(rows) ==
    IF rows = {} THEN <<>>
    ELSE LET m == CHOOSE x \in rows : \A y \in rows : ~StrLess(y.bill_number, x.bill_number)
         IN  <<m>> \o OrderByBillAsc(rows \ {m})

RECURSIVE OrderByBillDesc(_)
\* ORDER BY bill_number DESC.
OrderByBillDesc(rows) ==
    IF rows = {} THEN <<>>
    ELSE LET m == CHOOSE x \in rows : \A y \in rows : ~StrLess(x.bill_number, y.bill_number)
         IN  <<m>> \o OrderByBillDesc(rows \ {m})

\* The result set of the history query.
SelectAll(orders) == OrderByBillDesc({AllColumns(o) : o \in orders})

\* The request arrives and the store runs the SELECT, or the statement fails.
AllExec(r) ==
    /\ Arrives(r)
    /\ \E ok \in BOOLEAN :
          req' = [req EXCEPT ![r] = [Idle EXCEPT !.kind = "all", !.pc = "resume",
                                         !.rows = IF ok THEN SelectAll(Orders) ELSE <<>>,
                                         !.result = [code |-> IF ok THEN "OK" ELSE "ER_FAULT",
                                                     affectedRows |-> 0]]]
    /\ UNCHANGED <<Orders, uploads, now, startup, conn>>

\* The handler after the await: the rows are sent.
AllResume(r) ==
    /\ req[r].pc = "resume"
    /\ req[r].kind = "all"
    /\ req' = [req EXCEPT ![r].res = ListStatus(req[r].result), ![r].sent = @ + 1,
                          ![r].pc = "done",
                          ![r].rows = <<>>]
    /\ UNCHANGED <<Orders, uploads, now, startup, conn>>

\* ------------------------------------------------------------ specification
Next ==
    \/ Tick
    \/ ConnectOk
    \/ ConnectFail
    \/ Listen
    \/ \E r \in Requests : Upload(r)
    \/ \E r \in Requests : CreateHandler(r)
    \/ \E r \in Requests : CreateInsert(r)
    \/ \E r \in Requests : CreateResume(r)
    \/ \E r \in Requests : Unlink(r)
    \/ \E r \in Requests : CompleteExec(r)
    \/ \E r \in Requests : CompleteResume(r)
    \/ \E r \in Requests : PendingExec(r)
    \/ \E r \in Requests : PendingResume(r)
    \/ \E r \in Requests : AllExec(r)
    \/ \E r \in Requests : AllResume(r)

Spec == Init /\ [][Next]_vars

\* ------------------------------------------------------------------ claims
\* The handler of create request r has run (the body is complete).
Handled(r) == req[r].kind = "create" /\ req[r].pc \in {"insert", "resume", "unlink", "done"}
\* Request r is a create request with both required fields, for bill number b.
CreateFor(r, b) ==
    /\ Handled(r)
    /\ ~Falsy(req[r].body, "bill_number")
    /\ ~Falsy(req[r].body, "delivery_date")
    /\ req[r].body.bill_number = b
\* The response of r has been sent.
Answered(r) == req[r].res # 0
\* The statement of r did not fail for a reason other than the duplicate key.
NoFault(r) == req[r].result.code # "ER_FAULT"
\* An order with bill number b was in the table when the server started.
KeyUsedBefore(b) == \E o \in Orders : o.bill_number = b /\ o.bill_date = SeedDay
\* The INSERT of r did not add a row.
InsertFailed(r) ==
    \/ req[r].result.code \in {"ER_DUP_ENTRY", "ER_FAULT"}
    \/ req[r].result.code = "OK" /\ req[r].result.affectedRows = 0
\* uploads/ holds content written by the upload of r.
HasArtifactOf(r) == \E f \in uploads : f.owner = r

\* C1: the table holds at most one order per bill number, and of two answered create
\* requests with the same bill number (valid delivery date, no storage fault) never
\* both get 201; when the key was unused and no third request carries it, one gets
\* 201 and the other 409.
C1_OneSuccessPerBillNumber ==
    /\ \A o1, o2 \in Orders : o1.bill_number = o2.bill_number => o1 = o2
    /\ \A b \in BillNumbers : \A r1, r2 \in Requests :
          (/\ r1 # r2
           /\ CreateFor(r1, b) /\ Answered(r1) /\ NoFault(r1)
           /\ CreateFor(r2, b) /\ Answered(r2) /\ NoFault(r2))
          => /\ {req[r1].res, req[r2].res} \subseteq {201, 409}
             /\ ~(req[r1].res = 201 /\ req[r2].res = 201)
             /\ (/\ ~KeyUsedBefore(b)
                 /\ \A r3 \in Requests \ {r1, r2} : ~CreateFor(r3, b))
                => {req[r1].res, req[r2].res} = {201, 409}

\* Two requests raced for an unused key and the one that arrived later won.
C1_Witness ==
    \E b \in BillNumbers : \E r1, r2 \in Requests :
        /\ r1 < r2 /\ CreateFor(r1, b) /\ CreateFor(r2, b) /\ ~KeyUsedBefore(b)
        /\ req[r1].res = 409 /\ req[r2].res = 201

\* C2: after a create request with an uploaded image has failed on the insert step
\* (no affected row, duplicate-key error, other persistence error) and has finished,
\* uploads/ holds no artifact of that attempt.
C2_FailedInsertLeavesNoArtifact ==
    \A r \in Requests :
        (/\ req[r].kind = "create" /\ req[r].pc = "done"
         /\ req[r].file # {} /\ InsertFailed(r))
        => ~HasArtifactOf(r)

\* C3: a create request whose bill_number or delivery_date is absent or empty is
\* answered 400 without an INSERT, no other create request is answered 400, and when
\* it has finished uploads/ holds no artifact of that attempt.
C3_ValidationFailure ==
    \A r \in Requests : Handled(r) =>
        LET invalid == Falsy(req[r].body, "bill_number") \/ Falsy(req[r].body, "delivery_date")
        IN  /\ invalid => /\ req[r].res = 400
                          /\ req[r].result = NoResult
                          /\ req[r].pc \in {"unlink", "done"}
                          /\ req[r].pc = "done" => ~HasArtifactOf(r)
            /\ req[r].res = 400 => invalid

\* An invalid request with an image has finished and its own unlink removed the file.
C3_Witness ==
    \E r \in Requests :
        /\ Handled(r) /\ req[r].pc = "done" /\ req[r].res = 400
        /\ req[r].file # {} /\ ~req[r].unlinkErr
        /\ Has(req[r].body, "bill_number") /\ req[r].body.bill_number # <<>>
        /\ ~Has(req[r].body, "delivery_date")

\* C4: every order with an image_path references a file that exists in uploads/.
C4_NoDanglingImagePath ==
    \A o \in Orders : o.image_path # NULL => Exists(uploads, o.image_path[1])

\* Request r is a completeOrder call for bill number b (its UPDATE has run or failed).
CompleteFor(r, b) == req[r].kind = "complete" /\ req[r].params.billNumber = b
\* The bill numbers completeOrder is called with.
CompleteKeys == {p.billNumber : p \in CompleteParams}
\* The table held an order b with that status when the server started; only the
\* completion changes it afterwards.
StartedAs(b, status) ==
    KeyUsedBefore(b) /\ \E o \in SeedRows : o.bill_number = b /\ o.status = status
\* The answered completeOrder calls for b.
CompleteCalls(b) == {r \in Requests : CompleteFor(r, b) /\ Answered(r)}
\* No completeOrder call for b is still waiting for its response to be sent.
NoneInFlight(b) == \A r \in Requests : CompleteFor(r, b) => Answered(r)

\* C5 as stated: once every completeOrder call for an order that started Pending is
\* answered, exactly one of them got success and every other one got 404.
C5_ExactlyOneSuccess ==
    \A b \in CompleteKeys :
        (StartedAs(b, "Pending") /\ CompleteCalls(b) # {} /\ NoneInFlight(b))
        => /\ Cardinality({r \in CompleteCalls(b) : req[r].res = 200}) = 1
           /\ \A r \in CompleteCalls(b) : req[r].res \in {200, 404}

\* C5 amended: a call is answered 500 exactly when its UPDATE failed; at most one call
\* per bill number is ever answered success; and for an order that started Pending,
\* once all calls are answered, exactly one of the calls whose UPDATE ran got success
\* and every other such call got 404.
C5_OneSuccessAmongCallsThatRan ==
    \A b \in CompleteKeys :
        /\ \A r \in CompleteCalls(b) :
              /\ req[r].res \in {200, 404, 500}
              /\ req[r].res = 500 <=> ~NoFault(r)
        /\ Cardinality({r \in CompleteCalls(b) : req[r].res = 200}) <= 1
        /\ (/\ StartedAs(b, "Pending") /\ NoneInFlight(b)
            /\ \E r \in CompleteCalls(b) : NoFault(r))
           => /\ Cardinality({r \in CompleteCalls(b) : req[r].res = 200}) = 1
              /\ \A r \in CompleteCalls(b) : NoFault(r) => req[r].res \in {200, 404}

\* Two calls for an order that started Pending: the first got success, the second 404.
C5_Witness ==
    \E b \in CompleteKeys : \E r1, r2 \in CompleteCalls(b) :
        /\ StartedAs(b, "Pending") /\ r1 < r2
        /\ req[r1].res = 200 /\ req[r2].res = 404

\* No order has bill number b (orders are never removed, so none had it before).
NoOrder(b) == \A o \in Orders : o.bill_number # b

\* C6 as stated: a completeOrder call for a bill number without an order, or for an
\* order that was Complete from the start, is answered 404, and the order that was
\* Complete keeps its row.
C6_NoOpYields404 ==
    \A b \in CompleteKeys : \A r \in CompleteCalls(b) :
        (NoOrder(b) \/ StartedAs(b, "Complete"))
        => /\ req[r].res = 404
           /\ StartedAs(b, "Complete") => \E o \in SeedRows \cap Orders : o.bill_number = b

\* The step in which the UPDATE of completeOrder call r runs.
CompleteStep(r) == req[r].pc = "idle" /\ req'[r].kind = "complete"

\* C6 amended: a completeOrder call for a bill number that no order has, or whose
\* order is already Complete, changes no stored order and is answered 404, or 500
\* when the UPDATE itself failed.
C6_NoOpYields404Or500 ==
    /\ [][\A r \in Requests :
            (/\ CompleteStep(r)
             /\ \A o \in Orders : o.bill_number = req'[r].params.billNumber
                                     => o.status = "Complete")
            => /\ Orders' = Orders
               /\ req'[r].result.affectedRows = 0]_vars
    /\ [](\A b \in CompleteKeys : \A r \in CompleteCalls(b) :
            /\ (NoFault(r) /\ req[r].result.affectedRows = 0) => req[r].res = 404
            /\ ~NoFault(r) => req[r].res = 500
            /\ (NoOrder(b) \/ StartedAs(b, "Complete"))
               => /\ req[r].res \in {404, 500}
                  /\ StartedAs(b, "Complete")
                     => \E o \in SeedRows \cap Orders : o.bill_number = b)

\* One call for a bill number without an order and one for an order that was already
\* Complete, both answered 404.
C6_Witness ==
    \E b1, b2 \in CompleteKeys : \E r1 \in CompleteCalls(b1), r2 \in CompleteCalls(b2) :
        /\ NoOrder(b1) /\ StartedAs(b2, "Complete")
        /\ req[r1].res = 404 /\ req[r2].res = 404

\* The bill numbers of a result set.
RowBills(rows) == {rows[i].bill_number : i \in 1..Len(rows)}
\* The step in which the SELECT of listAll request l runs, and it did not fail.
AllStep(l) == req[l].pc = "idle" /\ req'[l].kind = "all" /\ req'[l].result.code = "OK"

\* C7: a create request (valid delivery date, no storage fault) for a bill number that
\* no order had and for which no other request added a row is answered 201 and its
\* order is stored; a row is Pending when it is added; and every listAll that runs
\* after a 201 response contains that order.
C7_UnusedKeySucceedsAndIsListed ==
    /\ [](\A b \in BillNumbers : \A r \in Requests :
            (/\ CreateFor(r, b) /\ Answered(r) /\ NoFault(r)
             /\ ~KeyUsedBefore(b)
             /\ \A r2 \in Requests \ {r} : CreateFor(r2, b) => req[r2].result.affectedRows = 0)
            => /\ req[r].res = 201
               /\ \E o \in Orders : o.bill_number = b)
    /\ [][/\ \A o \in Orders' :
              (\A p \in Orders : p.bill_number # o.bill_number)
              => o.status = "Pending" /\ o.completion_date = NULL
          /\ \A l \in Requests : AllStep(l) =>
                \A c \in Requests :
                    (req[c].kind = "create" /\ req[c].res = 201)
                    => req[c].body.bill_number \in RowBills(req'[l].rows)]_vars

\* A listAll that arrived after a create for an unused key was answered 201 holds
\* that order, still Pending, in its result.
C7_Witness ==
    \E b \in BillNumbers : \E c, l \in Requests :
        /\ CreateFor(c, b) /\ req[c].res = 201 /\ ~KeyUsedBefore(b)
        /\ c < l /\ req[l].kind = "all" /\ req[l].pc = "resume"
        /\ \E i \in 1..Len(req[l].rows) :
              req[l].rows[i].bill_number = b /\ req[l].rows[i].status = "Pending"

\* C8: listAll returns one row for every stored order, whatever its status, with the
\* bill numbers descending; and no step removes an order, so the bill numbers listAll
\* returns only grow.
C8_ListAllComplete ==
    /\ [][/\ \A o \in Orders : \E p \in Orders' : p.bill_number = o.bill_number
          /\ \A l \in Requests : AllStep(l) =>
                LET rows == req'[l].rows IN
                /\ Len(rows) = Cardinality(Orders)
                /\ \A o \in Orders : \E i \in 1..Len(rows) :
                      /\ rows[i].bill_number = o.bill_number
                      /\ rows[i].status = o.status
                      /\ rows[i].completion_date = o.completion_date]_vars
    /\ [](\A l \in Requests : req[l].kind = "all" =>
            \A i, j \in 1..Len(req[l].rows) :
                i < j => StrLess(req[l].rows[j].bill_number, req[l].rows[i].bill_number))

\* A listAll result with an order created through the API and orders of all three
\* statuses, the two-character bill number "10" sorted after "6".
C8_Witness ==
    \E l \in Requests :
        /\ req[l].kind = "all" /\ req[l].pc = "resume"
        /\ {"Pending", "In Progress", "Complete"}
              \subseteq {req[l].rows[i].status : i \in 1..Len(req[l].rows)}
        /\ \E c \in Requests : c < l /\ req[c].res = 201
                                /\ req[c].body.bill_number \in RowBills(req[l].rows)
        /\ \E i, j \in 1..Len(req[l].rows) :
              /\ i < j
              /\ req[l].rows[i].bill_number = <<"6">>
              /\ req[l].rows[j].bill_number = <<"1", "0">>

\* The step in which the SELECT of listPending request r runs, and it did not fail.
PendingStep(r) == req[r].pc = "idle" /\ req'[r].kind = "pending" /\ req'[r].result.code = "OK"
\* The orders that are Pending or In Progress with the delivery date in [lo, hi].
DueBetween(lo, hi) ==
    {o \in Orders : /\ o.status = "Pending" \/ o.status = "In Progress"
                    /\ DateLE(lo, o.delivery_date) /\ DateLE(o.delivery_date, hi)}
\* rows holds exactly one row for each of the orders.
ExactlyRowsOf(rows, orders) ==
    /\ Len(rows) = Cardinality(orders)
    /\ \A o \in orders : \E i \in 1..Len(rows) :
          /\ rows[i].bill_number = o.bill_number
          /\ rows[i].delivery_date = o.delivery_date
          /\ rows[i].status = o.status
    /\ \A i \in 1..Len(rows) : \E o \in orders : rows[i].bill_number = o.bill_number

\* C9: listPending with both bounds given returns exactly the orders that are Pending
\* or In Progress with the delivery date between the bounds, the bounds included, and
\* the delivery dates of the result ascend.
C9_ListPendingFilter ==
    /\ [][\A r \in Requests :
            (/\ PendingStep(r)
             /\ ~Falsy(req'[r].query, "start_date") /\ ~Falsy(req'[r].query, "end_date"))
            => ExactlyRowsOf(req'[r].rows,
                             DueBetween(req'[r].query.start_date, req'[r].query.end_date))]_vars
    /\ [](\A r \in Requests : req[r].kind = "pending" =>
            /\ \A i, j \in 1..Len(req[r].rows) :
                  i < j => DateLE(req[r].rows[i].delivery_date, req[r].rows[j].delivery_date)
            /\ \A i \in 1..Len(req[r].rows) : req[r].rows[i].status # "Complete")

\* A result whose first row is due on the start date and whose last row is due on
\* the end date, one of them In Progress, while a Pending order due before the start
\* date and a Complete order due inside the range are stored.
C9_Witness ==
    \E r \in Requests :
        /\ req[r].kind = "pending" /\ req[r].pc = "resume"
        /\ ~Falsy(req[r].query, "start_date") /\ ~Falsy(req[r].query, "end_date")
        /\ Len(req[r].rows) >= 3
        /\ req[r].rows[1].delivery_date = req[r].query.start_date
        /\ req[r].rows[1].status = "In Progress"
        /\ req[r].rows[Len(req[r].rows)].delivery_date = req[r].query.end_date
        /\ \E o \in Orders : o.status = "Pending"
              /\ ~DateLE(req[r].query.start_date, o.delivery_date)
        /\ \E o \in Orders : o.status = "Complete"
              /\ DateLE(req[r].query.start_date, o.delivery_date)
              /\ DateLE(o.delivery_date, req[r].query.end_date)

\* C10: an omitted or empty start_date stands for 2000-01-01 and an omitted or empty
\* end_date for 2100-01-01, each whatever the other bound is.
C10_DefaultBounds ==
    [][\A r \in Requests : PendingStep(r) =>
          LET q == req'[r].query
              rows == req'[r].rows
              noStart == ~Has(q, "start_date") \/ q.start_date = <<>>
              noEnd == ~Has(q, "end_date") \/ q.end_date = <<>>
          IN  /\ (noStart /\ noEnd)
                 => ExactlyRowsOf(rows, DueBetween(<<2000, 1, 1>>, <<2100, 1, 1>>))
              /\ (noStart /\ ~noEnd)
                 => ExactlyRowsOf(rows, DueBetween(<<2000, 1, 1>>, q.end_date))
              /\ (~noStart /\ noEnd)
                 => ExactlyRowsOf(rows, DueBetween(q.start_date, <<2100, 1, 1>>))]_vars

\* A result for a query with start_date left out and end_date empty: it holds the
\* orders due on 2000-01-01 and on 2100-01-01, while Pending orders due on 1999-12-31
\* and on 2100-01-02 are stored.
C10_Witness ==
    \E r \in Requests :
        /\ req[r].kind = "pending" /\ req[r].pc = "resume" /\ req[r].result.code = "OK"
        /\ ~Has(req[r].query, "start_date")
        /\ Has(req[r].query, "end_date") /\ req[r].query.end_date = <<>>
        /\ \E i, j \in 1..Len(req[r].rows) :
              /\ req[r].rows[i].delivery_date = <<2000, 1, 1>>
              /\ req[r].rows[j].delivery_date = <<2100, 1, 1>>
        /\ \E o \in Orders : o.status = "Pending" /\ o.delivery_date = <<1999, 12, 31>>
        /\ \E o \in Orders : o.status = "Pending" /\ o.delivery_date = <<2100, 1, 2>>

\* ----------------------------------------------------------------------- C11
\* A request has reached a route.
Accepted(r) == req[r].pc # "idle"

\* C11: requests are accepted only while the listener is up; the listener is up only
\* after the startup connection was acquired and released again; and once the startup
\* connection has failed no connection is held, no request is ever accepted and the
\* process stays in that state.
C11_ListenOnlyAfterConnectionCheck ==
    /\ [](/\ (\E r \in Requests : Accepted(r)) => startup = "listening"
          /\ startup = "listening" => conn = "released"
          /\ startup = "connected" <=> conn = "held"
          /\ startup = "failed" => conn = "none" /\ \A r \in Requests : ~Accepted(r))
    /\ [][/\ startup = "failed" => startup' = "failed"
          /\ startup' = "listening" => startup \in {"connected", "listening"}
          /\ conn' = "released" => conn \in {"held", "released"}]_vars

\* The listener is up after the connection check and a request has been answered.
C11_Witness ==
    /\ startup = "listening"
    /\ conn = "released"
    /\ \E r \in Requests : Answered(r)

\* ----------------------------------------------------------------------- C12
\* The response of create request r tells the caller that creation failed.
ToldFailed(r) == req[r].kind = "create" /\ req[r].res \in {400, 409, 500}

\* C12: once the error response of a create request that had stored an artifact has
\* been sent, the artifact of that request is no longer in uploads/.
C12_ArtifactGoneWhenErrorSent ==
    \A r \in Requests :
        ToldFailed(r) /\ req[r].file # {} => ~HasArtifactOf(r)

\* ----------------------------------------------------------------------- C13
\* C13: two different uploads never get the same artifact name.
C13_ArtifactNamesUnique ==
    \A r1, r2 \in Requests :
        r1 # r2 /\ req[r1].file # {} /\ req[r2].file # {} => req[r1].file # req[r2].file

\* ----------------------------------------------------------------------- C14
\* C14: an order whose status is Complete keeps that status and its completion_date
\* over every step of every operation.
C14_CompleteIsTerminal ==
    [][\A o \in Orders :
          o.status = "Complete" =>
             /\ \E p \in Orders' : p.bill_number = o.bill_number
             /\ \A p \in Orders' :
                   p.bill_number = o.bill_number =>
                      p.status = "Complete" /\ p.completion_date = o.completion_date]_vars

\* An order was completed at clock value 0 and, after the clock advanced, another
\* completeOrder call for it has been answered 404.
C14_Witness ==
    /\ now = 1
    /\ \E o \in Orders :
          /\ o.status = "Complete"
          /\ o.completion_date = Some(0)
          /\ \E r \in Requests : CompleteFor(r, o.bill_number) /\ req[r].res = 404

\* ----------------------------------------------------------------------- C15
\* C15: in every state an order has a completion_date exactly when its status is
\* Complete (the UPDATE sets both in one statement, the INSERT sets neither).
C15_CompletionDateIffComplete ==
    \A o \in Orders : (o.completion_date # NULL) <=> (o.status = "Complete")

\* An order created through the API has been completed through the API.
C15_Witness ==
    \E o \in Orders, r \in Requests :
        /\ o.bill_date # SeedDay
        /\ o.status = "Complete"
        /\ o.completion_date = Some(now)
        /\ CompleteFor(r, o.bill_number)
        /\ req[r].res = 200

\* ----------------------------------------------------------------------- C16
\* The fields of an order that completeOrder does not write.
Frame(o) == [o EXCEPT !.status = "Pending", !.completion_date = NULL]

\* C16: no step of any operation changes an order's bill_number, bill_date,
\* delivery_date, notes or image_path (nor removes the order); and the step in which a
\* completeOrder runs its UPDATE leaves uploads/ and every order with another bill
\* number as they were and adds no order.
C16_CompleteFrame ==
    [][/\ \A o \in Orders :
             /\ \E p \in Orders' : p.bill_number = o.bill_number
             /\ \A p \in Orders' : p.bill_number = o.bill_number => Frame(p) = Frame(o)
       /\ \A r \in Requests :
             CompleteStep(r) =>
                /\ uploads' = uploads
                /\ \A o \in Orders : o.bill_number # req'[r].params.billNumber => o \in Orders'
                /\ \A p \in Orders' : \E o \in Orders : o.bill_number = p.bill_number]_vars

\* A completeOrder has just changed an order while another order is not Complete
\* and uploads/ holds the artifact of a create request.
C16_Witness ==
    \E r \in Requests :
        /\ req[r].kind = "complete"
        /\ req[r].pc = "resume"
        /\ req[r].result.affectedRows = 1
        /\ \E o \in Orders : o.bill_number # req[r].params.billNumber /\ o.status # "Complete"
        /\ \E q \in Requests : HasArtifactOf(q)

\* ----------------------------------------------------------------------- C17
\* C17: an order with status In Progress is a row that was in the table, unchanged,
\* before the server started; an order created through the API is Pending, or it is
\* Complete and a completeOrder call for its bill number changed a row.
C17_NoInProgressThroughApi ==
    \A o \in Orders :
        /\ o.status \in {"Pending", "In Progress", "Complete"}
        /\ o.status = "In Progress" => o \in SeedRows
        /\ o.bill_date # SeedDay =>
              \/ o.status = "Pending"
              \/ /\ o.status = "Complete"
                 /\ \E r \in Requests :
                       CompleteFor(r, o.bill_number) /\ req[r].result.affectedRows = 1

\* A create request has added a Pending order and the order that was In Progress
\* before the server started has been completed.
C17_Witness ==
    /\ \E o \in Orders : o.bill_date # SeedDay /\ o.status = "Pending"
    /\ \E o \in Orders : o.bill_number = <<"8">> /\ o.status = "Complete"

\* ----------------------------------------------------------------------- C18
\* The fs.unlink callback of create request r has run.
Unlinked(r) ==
    /\ req[r].kind = "create"
    /\ req[r].pc = "done"
    /\ req[r].file # {}
    /\ req[r].result = NoResult \/ CleansUp(req[r].result, req[r].file)

\* C18: at most one response is sent for a request, and exactly one once it is done;
\* after the fs.unlink callback of a failing create request has run, with or without
\* an error, the response is still the one of the original failure: 400 for a missing
\* field, 409 for a duplicate key, 500 for another failure of the INSERT.
C18_UnlinkFailureNotEscalated ==
    \A r \in Requests :
        /\ req[r].sent <= 1
        /\ Answered(r) <=> req[r].sent = 1
        /\ req[r].pc = "done" => req[r].sent = 1
        /\ req[r].unlinkErr => Unlinked(r)
        /\ Unlinked(r) =>
              LET invalid == Falsy(req[r].body, "bill_number") \/ Falsy(req[r].body, "delivery_date")
              IN  /\ invalid => req[r].res = 400 /\ req[r].result = NoResult
                  /\ (~invalid /\ req[r].result.code = "ER_DUP_ENTRY") => req[r].res = 409
                  /\ (~invalid /\ req[r].result.code = "ER_FAULT") => req[r].res = 500

\* Two failing create requests stored the same file name; the unlink of one removed
\* the file, the unlink of the other failed, and that one was answered 409.
C18_Witness ==
    \E r1, r2 \in Requests :
        /\ Unlinked(r1) /\ Unlinked(r2)
        /\ ~req[r1].unlinkErr
        /\ req[r2].unlinkErr
        /\ req[r2].res = 409

\* ----------------------------------------------------------------------- C19
\* The INSERT of create request r adds a row in this step.
InsertStep(r) ==
    /\ req[r].pc = "insert"
    /\ req'[r].pc = "resume"
    /\ req'[r].result.affectedRows = 1

\* C19: the notes of every stored order is a string, never NULL; and the row a create
\* request adds holds the empty string when the request sent no notes or empty notes,
\* and the notes sent otherwise.
C19_NotesNeverNull ==
    /\ [](\A o \in Orders : o.notes # NULL /\ o.notes[1] \in NotesTexts \cup {<<>>})
    /\ [][\A r \in Requests :
             InsertStep(r) =>
                \E o \in Orders' \ Orders :
                   /\ o.bill_number = req[r].body.bill_number
                   /\ Falsy(req[r].body, "notes") => o.notes = Some(<<>>)
                   /\ ~Falsy(req[r].body, "notes") => o.notes = Some(req[r].body.notes)]_vars

\* An order created through the API holds the empty string as its notes.
C19_Witness ==
    \E o \in Orders, r \in Requests :
        /\ o.bill_date # SeedDay
        /\ o.notes = Some(<<>>)
        /\ CreateFor(r, o.bill_number)
        /\ req[r].res = 201

\* ----------------------------------------------------------------------- C20
\* This step is a step of create request r.
CreateStepOf(r) == req'[r] # req[r] /\ req'[r].kind = "create"

\* C20: a create request answered 400 has issued no INSERT; one answered 409 or 500
\* has issued an INSERT that added no row; one answered 201 has issued an INSERT that
\* added one row, and a row with its bill number is stored. The only step of a create
\* request that changes the table is an INSERT that reports one affected row, and it
\* adds exactly the row of that request and changes no other row.
C20_FailedCreateChangesNothing ==
    /\ [](\A r \in Requests :
             req[r].kind = "create" =>
                /\ req[r].res \in {0, 201, 400, 409, 500}
                /\ req[r].res = 400 => req[r].result = NoResult
                /\ req[r].res \in {409, 500} =>
                      req[r].result.code # "none" /\ req[r].result.affectedRows = 0
                /\ req[r].res = 201 =>
                      /\ req[r].result = [code |-> "OK", affectedRows |-> 1]
                      /\ \E o \in Orders : o.bill_number = req[r].body.bill_number)
    /\ [][\A r \in Requests :
             /\ CreateStepOf(r) /\ ~InsertStep(r) => Orders' = Orders
             /\ InsertStep(r) =>
                   /\ Orders \subseteq Orders'
                   /\ \E o \in Orders' :
                         /\ Orders' \ Orders = {o}
                         /\ o.bill_number = req[r].body.bill_number]_vars

\* A create request for a bill number was answered 500 and left no row; a second one
\* for the same bill number then added the row and was answered 201.
C20_Witness ==
    \E r1, r2 \in Requests, b \in BillNumbers :
        /\ r1 < r2
        /\ CreateFor(r1, b) /\ req[r1].res = 500
        /\ CreateFor(r2, b) /\ req[r2].res = 201
        /\ Cardinality({o \in Orders : o.bill_number = b}) = 1

====
